---- MODULE Spec2Model ----
(***************************************************************************)
(* Model of the Routine class (ModernRoutine.js): registration of          *)
(* subroutines and evaluators, the retry loop of executeSubroutine, the    *)
(* run loop of execute, and reset.  Every execute() call that passes the   *)
(* busy-check is a coroutine that is suspended at its awaits: the race of  *)
(* the action against the timeout timer, the evaluator, the retry delay.   *)
(* One action of the model is the code that runs between two awaits.       *)
(***************************************************************************)
EXTENDS Integers, Sequences, FiniteSets, TLC

\* ---------------------------------------------------------------- bounds
MaxCalls == 3       \* execute() and reset() calls the caller makes
MaxFaults == 1      \* failed attempts (action error, timeout, gate) in total
MaxRetryCalls == 2  \* the calls, in the runs with the default maxRetries
MaxRetryFaults == 3 \* the failed attempts, in the runs with the default maxRetries
MaxRegisterCalls == 2 \* the calls, after registrations of every kind
MaxExtras == 2      \* registration calls that overwrite, name no subroutine or throw
MaxWorkerCalls == 2 \* Worker: run() calls, and calls made on its Routine in all
MaxFairCalls == 2   \* with fairness: calls of execute() and reset() together
MaxFairFaults == 1  \* with fairness: failing attempts
MaxDirectCalls == 2 \* direct calls: execute(), executeSubroutine(), reset() together
MaxDirectFaults == 1 \* direct calls: failing attempts
MaxRoutines == 3    \* Promise: handler-based Routines added to the queue
MaxQueueExecs == 3  \* Promise: execute() calls on the queue
MaxHandlerFaults == 1 \* handler-based Routines with a handler (a sub-routine: or an evaluator) that throws
MaxHandlers == 2    \* handler-based Routine: then() calls, and catch() calls
MaxRoutineExecs == 1 \* handler-based Routine: direct execute() calls

Registration == <<"a", "b">>     \* the names the caller registers, in this order
Names == {Registration[i] : i \in DOMAIN Registration}
MaxRetriesChoices == {1, 2}      \* options.maxRetries given to the constructor
RetryDelayChoices == {100}       \* options.retryDelay given to the constructor
DefaultMaxRetries == 3
DefaultRetryDelay == 1000
DefaultTimeout == 30000

Runs == 1..MaxCalls              \* one coroutine per execute() call at most
FairRuns == 1..MaxFairCalls      \* the runs of the specification with fairness
WorkerRuns == 1..MaxWorkerCalls  \* one coroutine per run() call at most
Legacy == 1..MaxRoutines         \* the handler-based Routine objects

VARIABLES
  subroutines,   \* this.subroutines: the Map's keys in insertion order
  evaluators,    \* this.evaluators: the Map's keys
  options,       \* this.options
  state,         \* this.state (results is a reference into heap)
  heap,          \* the Map objects: 0 is the Map made by the constructor or
                 \* by the last reset(), r is the local `results` of run r
  runs,          \* the coroutine of each execute() call past the busy-check
  trace,         \* per run: action invocations, notifications, timers set
  started,       \* number of execute() calls that passed the busy-check
  busyCalls,     \* number of execute() calls rejected by the busy-check
  calls,         \* number of execute() and reset() calls so far
  faults,        \* number of failed attempts so far
  faultBudget,   \* number of failed attempts the environment may cause
  callBudget,    \* number of execute() and reset() calls the caller may make
  invocations,   \* per run: the arguments of each call of an action or evaluator
  abandoned,     \* the actions that lost the race to the timer and still run
  registry,      \* per name: which registration the stored action and the stored
                 \* evaluator come from (the values of the two Maps)
  extras,        \* number of registration calls that overwrote an entry, named
                 \* a subroutine not registered yet, or were rejected
  extraBudget,   \* number of such calls the caller may make
  configErrors,  \* number of registration calls that threw
  worker,        \* Worker: this.state of the Worker that wraps the Routine
  wruns,         \* Worker: the coroutine of each run() call past its busy-check
  wtrace,        \* Worker: the notifications of the Worker
  wcalls,        \* Worker: number of run() calls so far
  wbusy,         \* Worker: number of run() calls rejected by its busy-check
  workerBudget,  \* Worker: number of run() calls the caller may make
  routines,      \* Promise: this.routines, the handler-based Routines of the queue
  queue,         \* Promise: this.queue, the mode
  verdict,       \* per handler-based Routine: what its evaluator does when called
  successHandlers, \* per handler-based Routine: this.successHandlers
  failureHandlers, \* per handler-based Routine: this.failureHandlers
  subRoutines,   \* per handler-based Routine: this.subRoutines
  closures,      \* the counter i of each executeNextRoutine closure made so far
  qlog,          \* what the last Promise.execute() did, in order
  qexecs,        \* number of Promise.execute() calls so far
  queueBudget,   \* number of Promise.execute() calls the caller may make
  typeErrors     \* Promise: the methods called on it that it does not have

vars == <<subroutines, evaluators, options, state, heap, runs, trace,
          started, busyCalls, calls, faults, faultBudget, callBudget,
          invocations, abandoned, registry, extras, extraBudget, configErrors,
          worker, wruns, wtrace, wcalls, wbusy, workerBudget,
          routines, queue, verdict, successHandlers, failureHandlers, subRoutines,
          closures, qlog, qexecs, queueBudget, typeErrors>>

workerVars == <<worker, wruns, wtrace, wcalls, wbusy, workerBudget>>
queueVars == <<routines, queue, verdict, successHandlers, failureHandlers, subRoutines,
               closures, qlog, qexecs, queueBudget, typeErrors>>

\* ------------------------------------------------------------ data model
NullError == [kind |-> "null", name |-> "", attempts |-> 0, cause |-> "", run |-> 0]

\* the error of one failed attempt; its message is `kind`
AttemptError(kind, name, r) ==
  [kind |-> kind, name |-> name, attempts |-> 0, cause |-> "", run |-> r]

\* the value an action resolves with on attempt att of run r
Value(r, att) == [run |-> r, att |-> att]
NoValue == [run |-> 0, att |-> 0]

\* a JavaScript Map: a sequence of entries in insertion order
MapKeys(m) == [i \in 1..Len(m) |-> m[i].k]
MapHas(m, k) == \E i \in 1..Len(m) : m[i].k = k

\* a new key entered at the front of the Map
MapSetFront(m, k, v) ==
  IF MapHas(m, k)
  THEN [i \in 1..Len(m) |-> IF m[i].k = k THEN [k |-> k, v |-> v] ELSE m[i]]
  ELSE <<[k |-> k, v |-> v]>> \o m

MapSet(m, k, v) ==
  IF MapHas(m, k)
  THEN [i \in 1..Len(m) |-> IF m[i].k = k THEN [k |-> k, v |-> v] ELSE m[i]]
  ELSE Append(m, [k |-> k, v |-> v])

\* the entries of this.subroutines and this.evaluators under one name: the
\* number of the addSubroutine call the stored action came with, 0 for none,
\* and the number of the addSubroutine call that was the last one when the
\* stored evaluator was set, -1 for no evaluator
Unregistered == [action |-> 0, evaluator |-> -1]

\* worker.js, lines 8-13: this.state of a new Worker; results is null (-1)
\* or a reference to the Map that routine.execute() resolved with
FreshWorker == [isRunning |-> FALSE, lastRun |-> 0, error |-> NullError, results |-> -1]

\* a run() call: not made, awaiting routine.execute(), or settled; awaits is
\* the execute() call it awaits, 0 when that call was rejected by the
\* busy-check of the Routine
IdleWorkerRun == [pc |-> "new", awaits |-> 0, thrown |-> NullError]

FreshState ==
  [isRunning |-> FALSE, lastRun |-> 0, currentSubroutine |-> "",
   error |-> NullError, results |-> 0]

\* direct says that the coroutine is a call of executeSubroutine made by the
\* owner of the Routine, not by execute
IdleRun ==
  [pc |-> "new", idx |-> 0, attempts |-> 0, lastError |-> NullError,
   result |-> NoValue, thrown |-> NullError, direct |-> FALSE]

Entry(op, event, name, arg) == [op |-> op, event |-> event, name |-> name, arg |-> arg]

\* the part of the program one step of a coroutine reads and writes
World(r) == [state |-> state, heap |-> heap, run |-> runs[r], trace |-> trace[r],
             invocations |-> invocations[r], r |-> r]

Emit(W, event, name, arg) ==
  [W EXCEPT !.trace = Append(@, Entry("emit", event, name, arg))]

CurrentName(W) == subroutines[W.run.idx]

\* the arguments of a call: the initialData of run r, the Map object ref
\* with the entries it holds when the call is made, a value
InputsArg(r) == [kind |-> "inputs", run |-> r, att |-> 0, map |-> << >>]
ResultsArg(ref, m) == [kind |-> "results", run |-> ref, att |-> 0, map |-> m]
ValueArg(v) == [kind |-> "value", run |-> v.run, att |-> v.att, map |-> << >>]

Invoke(W, fn, args) ==
  [W EXCEPT !.invocations =
     Append(@, [fn |-> fn, name |-> CurrentName(W), pos |-> Len(W.trace),
                args |-> args,
                version |-> IF fn = "action" THEN registry[CurrentName(W)].action
                            ELSE registry[CurrentName(W)].evaluator])]

\* --------------------------------------------------- executeSubroutine
\* the loop entered once more: attempts <= maxRetries
LoopConditionInclusive(attempts) == attempts <= options.maxRetries

\* line 84: while (attempts < this.options.maxRetries)
LoopCondition(attempts) == attempts < options.maxRetries

\* line 103: if (attempts < this.options.maxRetries), the delay is awaited
DelayCondition(attempts) == attempts < options.maxRetries

\* a fixed delay in place of the linear backoff
FixedDelay(attempts) == options.retryDelay

\* line 105: setTimeout(resolve, this.options.retryDelay * attempts)
BackoffDelay(attempts) == options.retryDelay * attempts

\* line 111: the error thrown once the loop is left without a return; with
\* no failed attempt lastError is undefined and reading .message throws
ExhaustedError(W) ==
  IF W.run.lastError = NullError
  THEN [kind |-> "TypeError", name |-> CurrentName(W), attempts |-> W.run.attempts,
        cause |-> "", run |-> W.r]
  ELSE [kind |-> "Exhausted", name |-> CurrentName(W), attempts |-> W.run.attempts,
        cause |-> W.run.lastError.kind, run |-> W.r]

\* a catch that publishes and rethrows the error without recording it
ExecuteCatchUnrecorded(W, error) ==
  LET W2 == Emit(W, "error", "", error)
  IN [W2 EXCEPT !.state.isRunning = FALSE,
                !.state.currentSubroutine = "",
                !.run.pc = "rejected",
                !.run.thrown = error]

\* execute, lines 136-143: catch (state.error, error notification, rethrow)
\* and finally
ExecuteCatch(W, error) ==
  LET W1 == [W EXCEPT !.state.error = error]
      W2 == Emit(W1, "error", "", error)
  IN [W2 EXCEPT !.state.isRunning = FALSE,
                !.state.currentSubroutine = "",
                !.run.pc = "rejected",
                !.run.thrown = error]

\* a return that skips the cleanup of the finally block
ExecuteFinishNoCleanup(W) ==
  LET W1 == [W EXCEPT !.state.results = W.r]
      W2 == Emit(W1, "complete", "", W.r)
  IN [W2 EXCEPT !.run.pc = "resolved"]

\* execute, lines 133-135 and finally: every subroutine has passed
ExecuteFinish(W) ==
  LET W1 == [W EXCEPT !.state.results = W.r]
      W2 == Emit(W1, "complete", "", W.r)
  IN [W2 EXCEPT !.state.isRunning = FALSE,
                !.state.currentSubroutine = "",
                !.run.pc = "resolved"]

\* an attempt whose action is handed this.state.results
BeginAttemptSharedResults(W) ==
  LET W1 == [W EXCEPT !.state.currentSubroutine = CurrentName(W),
                      !.trace = Append(@, Entry("call", "", CurrentName(W),
                                                W.run.attempts + 1)),
                      !.run.pc = "action"]
  IN Invoke(W1, "action", <<InputsArg(W.r),
                            ResultsArg(W.state.results, W.heap[W.state.results])>>)

\* lines 86-87 and the wrapper of addSubroutine, lines 29-36: the attempt
\* sets currentSubroutine, invokes the action with the (initialData, results)
\* that execute passed at line 129 and awaits the race
BeginAttempt(W) ==
  LET W1 == [W EXCEPT !.state.currentSubroutine = CurrentName(W),
                      !.trace = Append(@, Entry("call", "", CurrentName(W),
                                                W.run.attempts + 1)),
                      !.run.pc = "action"]
  IN Invoke(W1, "action", <<InputsArg(W.r), ResultsArg(W.r, W.heap[W.r])>>)

\* a retry loop that never gives up
WhileLoopUnbounded(W) == BeginAttempt(W)

\* an error leaves executeSubroutine: to the catch of execute (line 136), or to
\* the caller of a direct call
Propagate(W, error) ==
  IF W.run.direct
  THEN [W EXCEPT !.run.pc = "rejected", !.run.thrown = error]
  ELSE ExecuteCatch(W, error)

\* lines 84-111: the head of the retry loop
WhileLoop(W) ==
  IF LoopCondition(W.run.attempts)
  THEN BeginAttempt(W)
  ELSE Propagate(W, ExhaustedError(W))

\* lines 75-82: executeSubroutine(name, initialData, results) for the
\* subroutine at position idx
ExecuteSubroutine(W, idx) ==
  WhileLoop([W EXCEPT !.run.idx = idx, !.run.attempts = 0,
                      !.run.lastError = NullError, !.run.result = NoValue])

\* a catch that keeps the error of the first failed attempt
AttemptFailedKeepsFirst(W, error) ==
  LET W1 == [W EXCEPT !.run.lastError = IF @ = NullError THEN error ELSE @,
                      !.run.attempts = @ + 1]
  IN IF DelayCondition(W1.run.attempts)
     THEN [W1 EXCEPT !.trace = Append(@, Entry("sleep", "", CurrentName(W1),
                                               BackoffDelay(W1.run.attempts))),
                     !.run.pc = "delay"]
     ELSE WhileLoop(W1)

\* lines 99-108: catch of the retry loop
AttemptFailed(W, error) ==
  LET W1 == [W EXCEPT !.run.lastError = error, !.run.attempts = @ + 1]
  IN IF DelayCondition(W1.run.attempts)
     THEN [W1 EXCEPT !.trace = Append(@, Entry("sleep", "", CurrentName(W1),
                                               BackoffDelay(W1.run.attempts))),
                     !.run.pc = "delay"]
     ELSE WhileLoop(W1)

\* execute, lines 128-131: the for-of loop over this.subroutines
ForLoop(W, idx) ==
  IF idx <= Len(subroutines) THEN ExecuteSubroutine(W, idx) ELSE ExecuteFinish(W)

\* line 98 (return result) and execute line 130 (results.set), then the
\* next iteration of the for-of loop
SubroutineReturned(W, result) ==
  LET W1 == [W EXCEPT !.heap[W.r] = MapSet(@, CurrentName(W), result),
                      !.trace = Append(@, Entry("pass", "", CurrentName(W), result))]
  IN IF W.run.direct
     THEN [W EXCEPT !.trace = Append(@, Entry("pass", "", CurrentName(W), result)),
                    !.run.pc = "resolved"]
     ELSE ForLoop(W1, W1.run.idx + 1)

\* a gate that is handed the value, the results so far and the inputs
ActionResolvedGateSeesAll(W, result) ==
  LET W1 == [W EXCEPT !.heap[W.state.results] = MapSet(@, CurrentName(W), result)]
      W2 == Emit(W1, "subroutineComplete", CurrentName(W), result)
  IN IF CurrentName(W) \in evaluators
     THEN Invoke([W2 EXCEPT !.run.result = result, !.run.pc = "evaluator"],
                 "evaluator", <<ValueArg(result), ResultsArg(W.r, W2.heap[W.r]),
                                InputsArg(W.r)>>)
     ELSE SubroutineReturned(W2, result)

\* wrapper of addSubroutine, lines 38-40, then executeSubroutine lines 89-98:
\* the evaluator wrapper is called with the result alone (line 91)
ActionResolved(W, result) ==
  LET W1 == [W EXCEPT !.heap[W.state.results] = MapSet(@, CurrentName(W), result)]
      W2 == Emit(W1, "subroutineComplete", CurrentName(W), result)
  IN IF CurrentName(W) \in evaluators
     THEN Invoke([W2 EXCEPT !.run.result = result, !.run.pc = "evaluator"],
                 "evaluator", <<ValueArg(result)>>)
     ELSE SubroutineReturned(W2, result)

\* a wrapper whose catch does not rethrow: the attempt returns undefined
ActionRejectedSwallowed(W, error) ==
  SubroutineReturned(Emit(W, "subroutineError", CurrentName(W), error), NoValue)

\* a wrapper that rethrows without publishing: line 42 left out
ActionRejectedSilent(W, error) == AttemptFailed(W, error)

\* wrapper of addSubroutine, lines 41-44, then the catch of the retry loop
ActionRejected(W, error) ==
  AttemptFailed(Emit(W, "subroutineError", CurrentName(W), error), error)

\* a gate whose verdict is not looked at: line 93 left out
EvaluatorResolvedUnchecked(W, evaluation) ==
  SubroutineReturned(Emit(W, "evaluation", CurrentName(W), evaluation), W.run.result)

\* wrapper of addEvaluator, lines 62-64, then executeSubroutine lines 93-98
EvaluatorResolved(W, evaluation) ==
  LET W1 == Emit(W, "evaluation", CurrentName(W), evaluation)
  IN IF evaluation
     THEN SubroutineReturned(W1, W.run.result)
     ELSE AttemptFailed(W1, AttemptError("EvaluationFailed", CurrentName(W), W.r))

\* an evaluator wrapper that also publishes the step's error notification
EvaluatorRejectedAsStep(W, error) ==
  AttemptFailed(Emit(Emit(W, "evaluatorError", CurrentName(W), error),
                     "subroutineError", CurrentName(W), error), error)

\* wrapper of addEvaluator, lines 65-68, then the catch of the retry loop
EvaluatorRejected(W, error) ==
  AttemptFailed(Emit(W, "evaluatorError", CurrentName(W), error), error)

\* a start that leaves the error of the last run in place: line 123 left out
ExecuteBodyKeepsError(W) ==
  LET W1 == [W EXCEPT !.state.isRunning = TRUE,
                      !.state.lastRun = W.r]
      W2 == Emit(W1, "start", "", W.r)
      W3 == [W2 EXCEPT !.heap[W.r] = << >>]
  IN ForLoop(W3, 1)

\* execute, lines 120-131: the synchronous part of a call that is not busy
ExecuteBody(W) ==
  LET W1 == [W EXCEPT !.state.isRunning = TRUE,
                      !.state.lastRun = W.r,
                      !.state.error = NullError]
      W2 == Emit(W1, "start", "", W.r)
      W3 == [W2 EXCEPT !.heap[W.r] = << >>]
  IN ForLoop(W3, 1)

\* ---------------------------------------------------------------- actions
Commit(W) ==
  /\ state' = W.state
  /\ heap' = W.heap
  /\ runs' = [runs EXCEPT ![W.r] = W.run]
  /\ trace' = [trace EXCEPT ![W.r] = W.trace]
  /\ invocations' = [invocations EXCEPT ![W.r] = W.invocations]

\* constructor, lines 3-21, but for this.options
Constructed ==
  /\ subroutines = << >>
  /\ evaluators = {}
  /\ state = FreshState
  /\ heap = [i \in 0..MaxCalls |-> << >>]
  /\ runs = [r \in Runs |-> IdleRun]
  /\ trace = [r \in Runs |-> << >>]
  /\ invocations = [r \in Runs |-> << >>]
  /\ abandoned = {}
  /\ registry = [n \in Names |-> Unregistered]
  /\ extras = 0
  /\ configErrors = 0
  /\ worker = FreshWorker
  /\ wruns = [w \in WorkerRuns |-> IdleWorkerRun]
  /\ wtrace = << >>
  /\ wcalls = 0
  /\ wbusy = 0
  /\ routines = << >>
  /\ queue = "parallel"
  /\ successHandlers = [j \in Legacy |-> << >>]
  /\ failureHandlers = [j \in Legacy |-> << >>]
  /\ subRoutines = [j \in Legacy |-> << >>]
  /\ closures = << >>
  /\ qlog = << >>
  /\ qexecs = 0
  /\ typeErrors = {}
  /\ started = 0
  /\ busyCalls = 0
  /\ calls = 0
  /\ faults = 0

\* new Routine(name, {maxRetries, retryDelay})
Init ==
  /\ Constructed
  /\ verdict = [j \in Legacy |-> "true"]
  /\ options \in [maxRetries : MaxRetriesChoices, retryDelay : RetryDelayChoices,
                  timeout : {DefaultTimeout}]
  /\ faultBudget = MaxFaults
  /\ callBudget = MaxCalls
  /\ extraBudget = 0
  /\ workerBudget = 0
  /\ queueBudget = 0

\* new Routine(name): lines 14-19, every option takes its default
InitRetry ==
  /\ Constructed
  /\ verdict = [j \in Legacy |-> "true"]
  /\ options = [maxRetries |-> DefaultMaxRetries, retryDelay |-> DefaultRetryDelay,
                timeout |-> DefaultTimeout]
  /\ faultBudget = MaxRetryFaults
  /\ callBudget = MaxRetryCalls
  /\ extraBudget = 0
  /\ workerBudget = 0
  /\ queueBudget = 0

\* addSubroutine(name, action, evaluator) with a function for action and a
\* function or nothing for evaluator, before the first execute():
\* lines 29-51, the Map entry is set under the name and the evaluator, when
\* one is given, through addEvaluator
AddSubroutine(name, withEvaluator) ==
  /\ started = 0
  /\ \E i \in 1..(Len(subroutines) + 1) : i <= Len(Registration) /\ name = Registration[i]
  /\ IF registry[name].action > 0 \/ (withEvaluator /\ name \in evaluators)
     THEN extras < extraBudget /\ extras' = extras + 1
     ELSE extras' = extras
  /\ subroutines' = IF \E i \in 1..Len(subroutines) : subroutines[i] = name
                    THEN subroutines ELSE Append(subroutines, name)
  /\ evaluators' = IF withEvaluator THEN evaluators \cup {name} ELSE evaluators
  /\ registry' = [registry EXCEPT
                    ![name] = [action |-> @.action + 1,
                               evaluator |-> IF withEvaluator THEN @.action + 1
                                             ELSE @.evaluator]]
  /\ UNCHANGED <<options, state, heap, runs, trace, started, busyCalls, calls, faults,
                 faultBudget, callBudget, invocations, abandoned,
                 extraBudget, configErrors,
                 workerVars, queueVars>>

\* addEvaluator(name, evaluator) with a function, before the first
\* execute(): lines 56-71, no look at this.subroutines
AddEvaluator(name) ==
  /\ started = 0
  /\ IF name \in evaluators \/ registry[name].action = 0
     THEN extras < extraBudget /\ extras' = extras + 1
     ELSE extras' = extras
  /\ evaluators' = evaluators \cup {name}
  /\ registry' = [registry EXCEPT ![name].evaluator = registry[name].action]
  /\ UNCHANGED <<subroutines, options, state, heap, runs, trace, started,
                 busyCalls, calls, faults, faultBudget, callBudget, invocations, abandoned,
                 extraBudget, configErrors,
                 workerVars, queueVars>>

\* addSubroutine(name, action, evaluator) with an argument that is not a
\* function: the action is tested at line 25 before anything is stored, the
\* evaluator at line 56, after the action has been stored at line 29
AddSubroutineRejected(name, bad) ==
  /\ started = 0
  /\ \E i \in 1..(Len(subroutines) + 1) : i <= Len(Registration) /\ name = Registration[i]
  /\ extras < extraBudget
  /\ extras' = extras + 1
  /\ configErrors' = configErrors + 1
  /\ IF bad = "action"
     THEN UNCHANGED <<subroutines, registry,
                 workerVars, queueVars>>
     ELSE /\ subroutines' = IF \E i \in 1..Len(subroutines) : subroutines[i] = name
                            THEN subroutines ELSE Append(subroutines, name)
          /\ registry' = [registry EXCEPT ![name].action = @ + 1]
  /\ UNCHANGED <<evaluators, options, state, heap, runs, trace, started,
                 busyCalls, calls, faults, faultBudget, callBudget, invocations, abandoned,
                 extraBudget,
                 workerVars, queueVars>>

\* addEvaluator(name, evaluator) with an evaluator that is not a function:
\* line 57
AddEvaluatorRejected(name) ==
  /\ started = 0
  /\ extras < extraBudget
  /\ extras' = extras + 1
  /\ configErrors' = configErrors + 1
  /\ UNCHANGED <<subroutines, evaluators, options, state, heap, runs, trace, started,
                 busyCalls, calls, faults, faultBudget, callBudget, invocations, abandoned,
                 registry, extraBudget,
                 workerVars, queueVars>>

\* the busy-check placed inside the try block: catch and finally run
ExecuteBusyInsideTry ==
  /\ state.isRunning
  /\ calls < callBudget
  /\ calls' = calls + 1
  /\ busyCalls' = busyCalls + 1
  /\ state' = [state EXCEPT !.error = [NullError EXCEPT !.kind = "Busy"],
                            !.isRunning = FALSE,
                            !.currentSubroutine = ""]
  /\ UNCHANGED <<subroutines, evaluators, options, heap, runs, trace,
                 started, faults, faultBudget, callBudget, invocations, abandoned,
                 registry, extras, extraBudget, configErrors,
                 workerVars, queueVars>>

\* a busy-check that publishes its error before it throws
ExecuteBusyPublished ==
  /\ state.isRunning
  /\ calls < callBudget
  /\ calls' = calls + 1
  /\ busyCalls' = busyCalls + 1
  /\ trace' = [trace EXCEPT ![started] =
                 Append(@, Entry("emit", "error", "", [NullError EXCEPT !.kind = "Busy"]))]
  /\ UNCHANGED <<subroutines, evaluators, options, state, heap, runs,
                 started, faults, faultBudget, callBudget, invocations, abandoned,
                 registry, extras, extraBudget, configErrors,
                 workerVars, queueVars>>

\* execute(), lines 116-118: the call is rejected by the busy-check
ExecuteBusy ==
  /\ state.isRunning
  /\ calls < callBudget
  /\ calls' = calls + 1
  /\ busyCalls' = busyCalls + 1
  /\ UNCHANGED <<subroutines, evaluators, options, state, heap, runs, trace,
                 started, faults, faultBudget, callBudget, invocations, abandoned,
                 registry, extras, extraBudget, configErrors,
                 workerVars, queueVars>>

\* execute(), the call passes the busy-check
ExecuteStart ==
  /\ ~state.isRunning
  /\ calls < callBudget
  /\ calls' = calls + 1
  /\ started' = started + 1
  /\ Commit(ExecuteBody(World(started + 1)))
  /\ UNCHANGED <<subroutines, evaluators, options, busyCalls, faults, faultBudget, callBudget, abandoned,
                 registry, extras, extraBudget, configErrors,
                 workerVars, queueVars>>

\* the action of the attempt in flight resolves before the timer
ActionSucceeds(r) ==
  /\ runs[r].pc = "action"
  /\ Commit(ActionResolved(World(r), Value(r, runs[r].attempts + 1)))
  /\ UNCHANGED <<subroutines, evaluators, options, started, busyCalls, calls, faults, faultBudget, callBudget, abandoned,
                 registry, extras, extraBudget, configErrors,
                 workerVars, queueVars>>

\* a failed attempt whose action is still running whatever made it fail
ActionFailsLeavesRunning(r, kind) ==
  /\ runs[r].pc = "action"
  /\ faults < faultBudget
  /\ faults' = faults + 1
  /\ Commit(ActionRejected(World(r), AttemptError(kind, subroutines[runs[r].idx], r)))
  /\ abandoned' = abandoned \cup {[run |-> r, name |-> subroutines[runs[r].idx],
                                    att |-> runs[r].attempts + 1]}
  /\ UNCHANGED <<subroutines, evaluators, options, started, busyCalls, calls, faultBudget, callBudget,
                 registry, extras, extraBudget, configErrors,
                 workerVars, queueVars>>

\* the action rejects, or the timer of the race fires first
ActionFails(r, kind) ==
  /\ runs[r].pc = "action"
  /\ faults < faultBudget
  /\ faults' = faults + 1
  /\ Commit(ActionRejected(World(r), AttemptError(kind, subroutines[runs[r].idx], r)))
  /\ abandoned' = IF kind = "Timeout"
                  THEN abandoned \cup {[run |-> r, name |-> subroutines[runs[r].idx],
                                        att |-> runs[r].attempts + 1]}
                  ELSE abandoned
  /\ UNCHANGED <<subroutines, evaluators, options, started, busyCalls, calls, faultBudget, callBudget,
                 registry, extras, extraBudget, configErrors,
                 workerVars, queueVars>>

\* the evaluator returns true
EvaluatorPasses(r) ==
  /\ runs[r].pc = "evaluator"
  /\ Commit(EvaluatorResolved(World(r), TRUE))
  /\ UNCHANGED <<subroutines, evaluators, options, started, busyCalls, calls, faults, faultBudget, callBudget, abandoned,
                 registry, extras, extraBudget, configErrors,
                 workerVars, queueVars>>

\* the evaluator returns false
EvaluatorRejects(r) ==
  /\ runs[r].pc = "evaluator"
  /\ faults < faultBudget
  /\ faults' = faults + 1
  /\ Commit(EvaluatorResolved(World(r), FALSE))
  /\ UNCHANGED <<subroutines, evaluators, options, started, busyCalls, calls, faultBudget, callBudget, abandoned,
                 registry, extras, extraBudget, configErrors,
                 workerVars, queueVars>>

\* the evaluator throws
EvaluatorThrows(r) ==
  /\ runs[r].pc = "evaluator"
  /\ faults < faultBudget
  /\ faults' = faults + 1
  /\ Commit(EvaluatorRejected(World(r),
              AttemptError("EvaluatorThrew", subroutines[runs[r].idx], r)))
  /\ UNCHANGED <<subroutines, evaluators, options, started, busyCalls, calls, faultBudget, callBudget, abandoned,
                 registry, extras, extraBudget, configErrors,
                 workerVars, queueVars>>

\* the retry delay elapses: next iteration of the retry loop
DelayElapses(r) ==
  /\ runs[r].pc = "delay"
  /\ Commit(WhileLoop(World(r)))
  /\ UNCHANGED <<subroutines, evaluators, options, started, busyCalls, calls, faults, faultBudget, callBudget, abandoned,
                 registry, extras, extraBudget, configErrors,
                 workerVars, queueVars>>

\* an abandoned action settles and its wrapper goes on after line 37
AbandonedSettlesRecorded(a) ==
  /\ a \in abandoned
  /\ abandoned' = abandoned \ {a}
  /\ heap' = [heap EXCEPT ![state.results] = MapSet(@, a.name, Value(a.run, a.att))]
  /\ trace' = [trace EXCEPT ![a.run] = Append(@, Entry("emit", "subroutineComplete",
                                                       a.name, Value(a.run, a.att)))]
  /\ UNCHANGED <<subroutines, evaluators, options, state, runs, started,
                 busyCalls, calls, faults, faultBudget, callBudget, invocations,
                 registry, extras, extraBudget, configErrors,
                 workerVars, queueVars>>

\* lines 31-37: an action that lost the race to the timer resolves or
\* rejects; Promise.race has settled and the wrapper has thrown already
AbandonedSettles(a) ==
  /\ a \in abandoned
  /\ abandoned' = abandoned \ {a}
  /\ UNCHANGED <<subroutines, evaluators, options, state, heap, runs, trace, started,
                 busyCalls, calls, faults, faultBudget, callBudget, invocations,
                 registry, extras, extraBudget, configErrors,
                 workerVars, queueVars>>

\* the attempts an action can be abandoned in
Attempts ==
  [run : Runs, name : Names, att : 1..DefaultMaxRetries]

\* a reset that empties the Map in place of the fields: results kept
ResetKeepsResults ==
  /\ calls < callBudget
  /\ calls' = calls + 1
  /\ state' = [FreshState EXCEPT !.results = state.results]
  /\ UNCHANGED <<subroutines, evaluators, options, heap, runs, trace, started,
                 busyCalls, faults, faultBudget, callBudget, invocations, abandoned,
                 registry, extras, extraBudget, configErrors,
                 workerVars, queueVars>>

\* a reset that also forgets what was registered
ResetClearsRegistrations ==
  /\ calls < callBudget
  /\ calls' = calls + 1
  /\ state' = FreshState
  /\ heap' = [heap EXCEPT ![0] = << >>]
  /\ subroutines' = << >>
  /\ evaluators' = {}
  /\ UNCHANGED <<options, runs, trace, started,
                 busyCalls, faults, faultBudget, callBudget, invocations, abandoned,
                 registry, extras, extraBudget, configErrors,
                 workerVars, queueVars>>

\* a reset that keeps the time of the last run: line 172 left out
ResetKeepsLastRun ==
  /\ calls < callBudget
  /\ calls' = calls + 1
  /\ state' = [FreshState EXCEPT !.lastRun = state.lastRun]
  /\ heap' = [heap EXCEPT ![0] = << >>]
  /\ UNCHANGED <<subroutines, evaluators, options, runs, trace, started,
                 busyCalls, faults, faultBudget, callBudget, invocations, abandoned,
                 registry, extras, extraBudget, configErrors,
                 workerVars, queueVars>>

\* reset(), lines 169-179
Reset ==
  /\ calls < callBudget
  /\ calls' = calls + 1
  /\ state' = FreshState
  /\ heap' = [heap EXCEPT ![0] = << >>]
  /\ UNCHANGED <<subroutines, evaluators, options, runs, trace, started,
                 busyCalls, faults, faultBudget, callBudget, invocations, abandoned,
                 registry, extras, extraBudget, configErrors,
                 workerVars, queueVars>>

\* executeSubroutine(name, ...args) called by the owner of the Routine, lines
\* 75-87: there is no busy-check, and an unknown name throws at line 77
NotFound(n, r) ==
  [kind |-> "NotFound", name |-> n, attempts |-> 0, cause |-> "", run |-> r]
ExecuteSubroutineCall(n) ==
  /\ calls < callBudget
  /\ calls' = calls + 1
  /\ started' = started + 1
  /\ LET W == [World(started + 1) EXCEPT !.run.direct = TRUE]
     IN IF \E i \in 1..Len(subroutines) : subroutines[i] = n
        THEN Commit(ExecuteSubroutine(W, CHOOSE i \in 1..Len(subroutines) :
                                           subroutines[i] = n))
        ELSE Commit([W EXCEPT !.run.pc = "rejected",
                              !.run.thrown = NotFound(n, started + 1)])
  /\ UNCHANGED <<subroutines, evaluators, options, busyCalls, faults, faultBudget, callBudget, abandoned,
                 registry, extras, extraBudget, configErrors,
                 workerVars, queueVars>>

Next ==
  \/ \E n \in Names, e \in BOOLEAN : AddSubroutine(n, e)
  \/ \E n \in Names : AddEvaluator(n)
  \/ ExecuteBusy
  \/ ExecuteStart
  \/ \E r \in Runs : ActionSucceeds(r)
  \/ \E r \in Runs, kind \in {"ActionError", "Timeout"} : ActionFails(r, kind)
  \/ \E r \in Runs : EvaluatorPasses(r)
  \/ \E r \in Runs : EvaluatorRejects(r)
  \/ \E r \in Runs : EvaluatorThrows(r)
  \/ \E r \in Runs : DelayElapses(r)
  \/ Reset

Spec == Init /\ [][Next]_vars

\* the three public operations together: execute(), executeSubroutine() and
\* reset(), each at any time
InitDirect ==
  /\ Constructed
  /\ verdict = [j \in Legacy |-> "true"]
  /\ options \in [maxRetries : MaxRetriesChoices, retryDelay : RetryDelayChoices,
                  timeout : {DefaultTimeout}]
  /\ faultBudget = MaxDirectFaults
  /\ callBudget = MaxDirectCalls
  /\ extraBudget = 0
  /\ workerBudget = 0
  /\ queueBudget = 0

NextDirect ==
  \/ Next
  \/ \E n \in Names : ExecuteSubroutineCall(n)

SpecDirect == InitDirect /\ [][NextDirect]_vars

\* reset() called between runs only, as the lifecycle of a Routine has it
ResetIdle ==
  /\ ~state.isRunning
  /\ Reset

NextRetry ==
  \/ \E n \in Names, e \in BOOLEAN : AddSubroutine(n, e)
  \/ \E n \in Names : AddEvaluator(n)
  \/ ExecuteBusy
  \/ ExecuteStart
  \/ \E r \in Runs : ActionSucceeds(r)
  \/ \E r \in Runs, kind \in {"ActionError", "Timeout"} : ActionFails(r, kind)
  \/ \E r \in Runs : EvaluatorPasses(r)
  \/ \E r \in Runs : EvaluatorRejects(r)
  \/ \E r \in Runs : EvaluatorThrows(r)
  \/ \E r \in Runs : DelayElapses(r)
  \/ ResetIdle

SpecRetry == InitRetry /\ [][NextRetry]_vars

\* lines 31-36: the race of the action with the timer settles, by the action
\* or, at the latest, by the timer of line 34
RaceSettles(r) ==
  \/ ActionSucceeds(r)
  \/ \E kind \in {"ActionError", "Timeout"} : ActionFails(r, kind)

\* Timers fire: the race of lines 31-36 settles and the delay of lines
\* 104-106 elapses.  The evaluator is awaited without a timer (line 62, line
\* 91), so nothing makes an evaluator call settle.
TimersFire ==
  \A r \in FairRuns : WF_vars(RaceSettles(r)) /\ WF_vars(DelayElapses(r))

InitFair ==
  /\ Constructed
  /\ verdict = [j \in Legacy |-> "true"]
  /\ options \in [maxRetries : MaxRetriesChoices, retryDelay : RetryDelayChoices,
                  timeout : {DefaultTimeout}]
  /\ faultBudget = MaxFairFaults
  /\ callBudget = MaxFairCalls
  /\ extraBudget = 0
  /\ workerBudget = 0
  /\ queueBudget = 0

SpecFair == InitFair /\ [][NextRetry]_vars /\ TimersFire

\* the Routine with actions that outlive their timeout and settle later
NextLate ==
  \/ \E n \in Names, e \in BOOLEAN : AddSubroutine(n, e)
  \/ \E n \in Names : AddEvaluator(n)
  \/ ExecuteBusy
  \/ ExecuteStart
  \/ \E r \in Runs : ActionSucceeds(r)
  \/ \E r \in Runs, kind \in {"ActionError", "Timeout"} : ActionFails(r, kind)
  \/ \E r \in Runs : EvaluatorPasses(r)
  \/ \E r \in Runs : EvaluatorRejects(r)
  \/ \E r \in Runs : EvaluatorThrows(r)
  \/ \E r \in Runs : DelayElapses(r)
  \/ \E a \in Attempts : AbandonedSettles(a)
  \/ Reset

SpecLate == Init /\ [][NextLate]_vars

\* the Routine with registration calls of every kind: names added again,
\* evaluators for names not added, arguments that are not functions
InitRegister ==
  /\ Constructed
  /\ verdict = [j \in Legacy |-> "true"]
  /\ options \in [maxRetries : MaxRetriesChoices, retryDelay : RetryDelayChoices,
                  timeout : {DefaultTimeout}]
  /\ faultBudget = MaxFaults
  /\ callBudget = MaxRegisterCalls
  /\ extraBudget = MaxExtras
  /\ workerBudget = 0
  /\ queueBudget = 0

NextRegister ==
  \/ \E n \in Names, e \in BOOLEAN : AddSubroutine(n, e)
  \/ \E n \in Names : AddEvaluator(n)
  \/ \E n \in Names, bad \in {"action", "evaluator"} : AddSubroutineRejected(n, bad)
  \/ \E n \in Names : AddEvaluatorRejected(n)
  \/ ExecuteBusy
  \/ ExecuteStart
  \/ \E r \in Runs : ActionSucceeds(r)
  \/ \E r \in Runs, kind \in {"ActionError", "Timeout"} : ActionFails(r, kind)
  \/ \E r \in Runs : EvaluatorPasses(r)
  \/ \E r \in Runs : EvaluatorRejects(r)
  \/ \E r \in Runs : EvaluatorThrows(r)
  \/ \E r \in Runs : DelayElapses(r)
  \/ Reset

SpecRegister == InitRegister /\ [][NextRegister]_vars

\* ------------------------------------------------------- Worker (worker.js)
routineVars == <<subroutines, evaluators, options, state, heap, runs, trace, started,
                 busyCalls, calls, faults, faultBudget, callBudget, invocations,
                 abandoned, registry, extras, extraBudget, configErrors>>

BusyError == [NullError EXCEPT !.kind = "Busy"]

\* a busy-check of the Worker placed inside the try block: catch and finally run
WorkerRunBusyInsideTry ==
  /\ worker.isRunning
  /\ wcalls < workerBudget
  /\ wcalls' = wcalls + 1
  /\ wbusy' = wbusy + 1
  /\ worker' = [worker EXCEPT !.error = BusyError, !.isRunning = FALSE]
  /\ wtrace' = Append(wtrace, "error")
  /\ UNCHANGED <<routineVars, wruns, workerBudget, queueVars>>

\* run(), lines 18-20: the call is rejected by the busy-check of the Worker
WorkerRunBusy ==
  /\ worker.isRunning
  /\ wcalls < workerBudget
  /\ wcalls' = wcalls + 1
  /\ wbusy' = wbusy + 1
  /\ UNCHANGED <<routineVars, worker, wruns, wtrace, workerBudget, queueVars>>

\* run(), lines 23-28: the state of the Worker is set, start is published
\* and routine.execute(initialData) is called and awaited; execute() runs
\* up to its first await, or is rejected by the busy-check of the Routine
WorkerRunStart ==
  /\ ~worker.isRunning
  /\ wcalls < workerBudget
  /\ calls < callBudget
  /\ wcalls' = wcalls + 1
  /\ calls' = calls + 1
  /\ worker' = [worker EXCEPT !.isRunning = TRUE, !.lastRun = wcalls + 1,
                              !.error = NullError]
  /\ wtrace' = Append(wtrace, "start")
  /\ IF state.isRunning
     THEN /\ busyCalls' = busyCalls + 1
          /\ wruns' = [wruns EXCEPT ![wcalls + 1] = [IdleWorkerRun EXCEPT !.pc = "awaiting"]]
          /\ UNCHANGED <<state, heap, runs, trace, invocations, started>>
     ELSE /\ started' = started + 1
          /\ Commit(ExecuteBody(World(started + 1)))
          /\ wruns' = [wruns EXCEPT ![wcalls + 1] =
                         [IdleWorkerRun EXCEPT !.pc = "awaiting", !.awaits = started + 1]]
          /\ UNCHANGED busyCalls
  /\ UNCHANGED <<subroutines, evaluators, options, faults, faultBudget, callBudget,
                 abandoned, registry, extras, extraBudget, configErrors,
                 wbusy, workerBudget, queueVars>>

\* run(), lines 28-38: execute() has settled and run() goes on after its
\* await: results and complete, or catch (error), and finally
WorkerResumes(w) ==
  /\ wruns[w].pc = "awaiting"
  /\ wruns[w].awaits # 0 => runs[wruns[w].awaits].pc \in {"resolved", "rejected"}
  /\ IF wruns[w].awaits # 0 /\ runs[wruns[w].awaits].pc = "resolved"
     THEN /\ worker' = [worker EXCEPT !.results = wruns[w].awaits, !.isRunning = FALSE]
          /\ wtrace' = Append(wtrace, "complete")
          /\ wruns' = [wruns EXCEPT ![w].pc = "resolved"]
     ELSE LET error == IF wruns[w].awaits = 0 THEN BusyError
                       ELSE runs[wruns[w].awaits].thrown
          IN /\ worker' = [worker EXCEPT !.error = error, !.isRunning = FALSE]
             /\ wtrace' = Append(wtrace, "error")
             /\ wruns' = [wruns EXCEPT ![w].pc = "rejected", ![w].thrown = error]
  /\ UNCHANGED <<routineVars, wcalls, wbusy, workerBudget, queueVars>>

\* new Worker(name, routine) around a Routine that its owner may also call
InitWorker ==
  /\ Constructed
  /\ verdict = [j \in Legacy |-> "true"]
  /\ options \in [maxRetries : MaxRetriesChoices, retryDelay : RetryDelayChoices,
                  timeout : {DefaultTimeout}]
  /\ faultBudget = MaxFaults
  /\ callBudget = MaxWorkerCalls
  /\ extraBudget = 0
  /\ workerBudget = MaxWorkerCalls
  /\ queueBudget = 0

NextWorker ==
  \/ \E n \in Names, e \in BOOLEAN : AddSubroutine(n, e)
  \/ \E n \in Names : AddEvaluator(n)
  \/ ExecuteBusy
  \/ ExecuteStart
  \/ \E r \in Runs : ActionSucceeds(r)
  \/ \E r \in Runs, kind \in {"ActionError", "Timeout"} : ActionFails(r, kind)
  \/ \E r \in Runs : EvaluatorPasses(r)
  \/ \E r \in Runs : EvaluatorRejects(r)
  \/ \E r \in Runs : EvaluatorThrows(r)
  \/ \E r \in Runs : DelayElapses(r)
  \/ Reset
  \/ WorkerRunBusy
  \/ WorkerRunStart
  \/ \E w \in WorkerRuns : WorkerResumes(w)

SpecWorker == InitWorker /\ [][NextWorker]_vars

\* ------------------------------------- handler-based Routine and Promise
\* The handler-based classes: an Evaluator wraps a function, a Routine runs its
\* evaluator and then its success or failure handlers and its sub-routines, a
\* Promise holds a list of Routines and a mode.  Everything here is
\* synchronous, so one execute() call is one step.

Verdicts == {"true", "false", "throw"}   \* what an evaluator function does
Modes == {"parallel", "waterfall", "invalid"}
\* which of the two handlers given to a Routine throws when it is called
HandlerFaults == {"none", "success", "failure"}

UserHandler(id, throws) == [kind |-> "user", id |-> id, throws |-> throws]
\* the closure executeNextRoutine number c, used as a success handler
NextHandler(c) == [kind |-> "next", id |-> c, throws |-> FALSE]

\* the Routines one of whose handlers throws
Throwing ==
  {j \in Legacy : \/ \E k \in DOMAIN successHandlers[j] : successHandlers[j][k].throws
                  \/ \E k \in DOMAIN failureHandlers[j] : failureHandlers[j][k].throws}

\* the part of the heap one Promise.execute() call reads and writes; thrown
\* says that an exception is on its way up the stack
Queue == [successHandlers |-> successHandlers, closures |-> closures,
          log |-> << >>, thrown |-> FALSE]
QLog(Q, ev, j, id) ==
  [Q EXCEPT !.log = Append(@, [ev |-> ev, routine |-> j, id |-> id])]
Throw(Q) == [Q EXCEPT !.thrown = TRUE]
Caught(Q) == [Q EXCEPT !.thrown = FALSE]

RECURSIVE FireFailure(_, _, _)
\* this.failureHandlers.forEach(handler => handler(...)), from handler k on
FireFailure(Q, j, k) ==
  IF k > Len(failureHandlers[j]) THEN Q
  ELSE LET h == failureHandlers[j][k]
           Q1 == QLog(Q, "failure", j, h.id)
       IN IF h.throws THEN Throw(Q1) ELSE FireFailure(Q1, j, k + 1)

RECURSIVE RoutineExecute(_, _)
RECURSIVE FireSuccess(_, _, _, _)
RECURSIVE ExecuteSubRoutinesOnSuccess(_, _, _)
RECURSIVE ExecuteSubRoutines(_, _, _)
RECURSIVE ExecuteNextRoutine(_, _)

\* Routine.execute() of routine j: the try block, the catch block, the
\* sub-routines
RoutineExecute(Q, j) ==
  LET Q1 == QLog(Q, "start", j, 0)
      Try == IF verdict[j] = "throw" THEN Throw(Q1)
             ELSE IF verdict[j] = "true"
             THEN FireSuccess(Q1, j, 1, Len(Q1.successHandlers[j]))
             ELSE FireFailure(Q1, j, 1)
      Q2 == IF Try.thrown THEN FireFailure(Caught(Try), j, 1) ELSE Try
      Q3 == IF Q2.thrown THEN Q2 ELSE ExecuteSubRoutines(Q2, j, 1)
  IN IF Q3.thrown THEN Q3 ELSE QLog(Q3, "end", j, 0)

\* this.successHandlers.forEach(handler => handler()), from handler k on; n is
\* the length of the list when the forEach began
FireSuccess(Q, j, k, n) ==
  IF k > n THEN Q
  ELSE LET h == Q.successHandlers[j][k]
           Q1 == IF h.kind = "next" THEN ExecuteNextRoutine(Q, h.id)
                 ELSE IF h.throws THEN Throw(QLog(Q, "success", j, h.id))
                 ELSE QLog(Q, "success", j, h.id)
       IN IF Q1.thrown THEN Q1 ELSE FireSuccess(Q1, j, k + 1, n)

\* this.subRoutines.forEach(subRoutine => subRoutine.execute()), from k on; the
\* mutant runs the sub-routines only when the evaluator of j succeeded
ExecuteSubRoutinesOnSuccess(Q, j, k) ==
  IF k > Len(subRoutines[j]) \/ verdict[j] # "true" THEN Q
  ELSE LET Q1 == RoutineExecute(Q, subRoutines[j][k])
       IN IF Q1.thrown THEN Q1 ELSE ExecuteSubRoutines(Q1, j, k + 1)
ExecuteSubRoutines(Q, j, k) ==
  IF k > Len(subRoutines[j]) THEN Q
  ELSE LET Q1 == RoutineExecute(Q, subRoutines[j][k])
       IN IF Q1.thrown THEN Q1 ELSE ExecuteSubRoutines(Q1, j, k + 1)

\* a call of the closure executeNextRoutine number c, whose counter i is
\* closures[c]; the closure is pushed after routine.execute() has returned
ExecuteNextRoutine(Q, c) ==
  IF Q.closures[c] < Len(routines)
  THEN LET routine == routines[Q.closures[c] + 1]
           Q1 == [Q EXCEPT !.closures[c] = @ + 1]
           Q2 == RoutineExecute(Q1, routine)
       IN IF Q2.thrown THEN Q2
          ELSE [Q2 EXCEPT !.successHandlers[routine] = Append(@, NextHandler(c))]
  ELSE Q

RECURSIVE ParallelStopsAtFailure(_, _)
RECURSIVE Parallel(_, _)
\* this.routines.forEach(routine => routine.execute()), from routine k on; the
\* mutant stops at the first routine whose evaluator does not succeed
ParallelStopsAtFailure(Q, k) ==
  IF k > Len(routines) THEN Q
  ELSE LET Q1 == RoutineExecute(Q, routines[k])
       IN IF Q1.thrown \/ verdict[routines[k]] # "true" THEN Q1
          ELSE Parallel(Q1, k + 1)
Parallel(Q, k) ==
  IF k > Len(routines) THEN Q
  ELSE LET Q1 == RoutineExecute(Q, routines[k])
       IN IF Q1.thrown THEN Q1 ELSE Parallel(Q1, k + 1)

\* let i = 0; const executeNextRoutine = ...; executeNextRoutine()
Waterfall(Q) ==
  ExecuteNextRoutine([Q EXCEPT !.closures = Append(@, 0)], Len(Q.closures) + 1)

\* promise.addRoutine(new Routine(new Evaluator(fn)).then(s).catch(f)), where
\* fn behaves as v and t says which of s and f throws: the constructors of
\* lines 2-9 and 17-27, then() and catch() of lines 29-47, and addRoutine
AddRoutine(j, v, t) ==
  /\ j = Len(routines) + 1
  /\ t # "none" => Cardinality(Throwing) < MaxHandlerFaults
  /\ verdict' = [verdict EXCEPT ![j] = v]
  /\ successHandlers' =
       [successHandlers EXCEPT ![j] = <<UserHandler(1, t = "success")>>]
  /\ failureHandlers' =
       [failureHandlers EXCEPT ![j] = <<UserHandler(1, t = "failure")>>]
  /\ routines' = Append(routines, j)
  /\ UNCHANGED <<routineVars, workerVars, queue, subRoutines, closures, qlog,
                 qexecs, queueBudget, typeErrors>>

\* promise.addQueue(mode)
AddQueue(mode) ==
  /\ queue # mode
  /\ queue' = mode
  /\ UNCHANGED <<routineVars, workerVars, routines, verdict, successHandlers,
                 failureHandlers, subRoutines, closures, qlog, qexecs, queueBudget,
                 typeErrors>>

\* promise.execute()
PromiseExecute ==
  /\ qexecs < queueBudget
  /\ qexecs' = qexecs + 1
  /\ LET Q0 == QLog(Queue, queue, 0, 0)
         Q == IF queue = "parallel" THEN Parallel(Q0, 1)
              ELSE IF queue = "waterfall" THEN Waterfall(Q0)
              ELSE Throw(Q0)
     IN /\ successHandlers' = Q.successHandlers
        /\ closures' = Q.closures
        /\ qlog' = IF Q.thrown THEN QLog(Q, "throw", 0, 0).log ELSE Q.log
  /\ UNCHANGED <<routineVars, workerVars, routines, queue, verdict,
                 failureHandlers, subRoutines, queueBudget, typeErrors>>

InitQueue ==
  /\ Constructed
  /\ verdict = [j \in Legacy |-> "true"]
  /\ options = [maxRetries |-> DefaultMaxRetries, retryDelay |-> DefaultRetryDelay,
                timeout |-> DefaultTimeout]
  /\ callBudget = 0
  /\ faultBudget = 0
  /\ extraBudget = 0
  /\ workerBudget = 0
  /\ queueBudget = MaxQueueExecs

NextQueue ==
  \/ \E j \in Legacy, v \in Verdicts, t \in HandlerFaults : AddRoutine(j, v, t)
  \/ \E mode \in Modes : AddQueue(mode)
  \/ PromiseExecute

SpecQueue == InitQueue /\ [][NextQueue]_vars

\* The handler-based Routine on its own: routine Root is built by the caller
\* with then(), catch() and addSubRoutine() and executed directly.
Root == 1

\* the routines that throw: in a handler or, for a sub-routine, in the evaluator
Faulty == Throwing \cup {c \in Legacy \ {Root} : verdict[c] = "throw"}

\* routine.then(successHandler); throws says what the handler does when called
Then(j, throws) ==
  /\ Len(successHandlers[j]) < MaxHandlers
  /\ throws => Cardinality(Throwing) < MaxHandlerFaults
  /\ successHandlers' =
       [successHandlers EXCEPT ![j] = Append(@, UserHandler(Len(@) + 1, throws))]
  /\ UNCHANGED <<routineVars, workerVars, routines, queue, verdict, failureHandlers,
                 subRoutines, closures, qlog, qexecs, queueBudget, typeErrors>>

\* routine.catch(failureHandler)
Catch(j, throws) ==
  /\ Len(failureHandlers[j]) < MaxHandlers
  /\ throws => Cardinality(Throwing) < MaxHandlerFaults
  /\ failureHandlers' =
       [failureHandlers EXCEPT ![j] = Append(@, UserHandler(Len(@) + 1, throws))]
  /\ UNCHANGED <<routineVars, workerVars, routines, queue, verdict, successHandlers,
                 subRoutines, closures, qlog, qexecs, queueBudget, typeErrors>>

\* routine.addSubRoutine(new Routine(new Evaluator(fn)).then(s).catch(f)) on
\* routine j, where fn behaves as v and t says which of s and f throws; the new
\* routine c is one that no routine holds yet, so the structure has no cycle
AddSubRoutine(j, c, v, t) ==
  /\ c = j + Len(subRoutines[j]) + 1
  /\ (t # "none" \/ v = "throw") => Cardinality(Faulty) < MaxHandlerFaults
  /\ verdict' = [verdict EXCEPT ![c] = v]
  /\ successHandlers' =
       [successHandlers EXCEPT ![c] = <<UserHandler(1, t = "success")>>]
  /\ failureHandlers' =
       [failureHandlers EXCEPT ![c] = <<UserHandler(1, t = "failure")>>]
  /\ subRoutines' = [subRoutines EXCEPT ![j] = Append(@, c)]
  /\ UNCHANGED <<routineVars, workerVars, routines, queue, closures, qlog, qexecs,
                 queueBudget, typeErrors>>

\* routine.execute(), called by the owner of routine j
LegacyExecute(j) ==
  /\ qexecs < queueBudget
  /\ qexecs' = qexecs + 1
  /\ LET Q == RoutineExecute(QLog(Queue, "direct", j, 0), j)
     IN /\ successHandlers' = Q.successHandlers
        /\ closures' = Q.closures
        /\ qlog' = IF Q.thrown THEN QLog(Q, "throw", 0, 0).log ELSE Q.log
  /\ UNCHANGED <<routineVars, workerVars, routines, queue, verdict,
                 failureHandlers, subRoutines, queueBudget, typeErrors>>

\* new Routine(new Evaluator(fn)) for Root, where fn behaves in one of the
\* three ways
InitLegacy ==
  /\ Constructed
  /\ verdict \in {f \in [Legacy -> Verdicts] : \A j \in Legacy \ {Root} : f[j] = "true"}
  /\ options = [maxRetries |-> DefaultMaxRetries, retryDelay |-> DefaultRetryDelay,
                timeout |-> DefaultTimeout]
  /\ callBudget = 0
  /\ faultBudget = 0
  /\ extraBudget = 0
  /\ workerBudget = 0
  /\ queueBudget = MaxRoutineExecs

NextLegacy ==
  \/ \E throws \in BOOLEAN : Then(Root, throws)
  \/ \E throws \in BOOLEAN : Catch(Root, throws)
  \/ \E c \in Legacy, v \in Verdicts, t \in HandlerFaults : AddSubRoutine(Root, c, v, t)
  \/ LegacyExecute(Root)

SpecLegacy == InitLegacy /\ [][NextLegacy]_vars

\* promise.then(handler) and promise.catch(handler), as the README has them:
\* class Promise defines constructor, addRoutine, addQueue and execute and
\* inherits nothing, so promise[method] is undefined and the call throws a
\* TypeError; nothing is stored
MissingMethod(method) ==
  /\ method \notin typeErrors
  /\ typeErrors' = typeErrors \cup {method}
  /\ UNCHANGED <<routineVars, workerVars, routines, queue, verdict, successHandlers,
                 failureHandlers, subRoutines, closures, qlog, qexecs, queueBudget>>
PromiseThen == MissingMethod("then")
PromiseCatch == MissingMethod("catch")

NextNotify ==
  \/ NextQueue
  \/ PromiseThen
  \/ PromiseCatch

SpecNotify == InitQueue /\ [][NextNotify]_vars

\* ------------------------------------------------------------ vocabulary
InFlight(r) == runs[r].pc \in {"action", "evaluator", "delay"}
Settled(r) == runs[r].pc \in {"resolved", "rejected"}
Settles(r) == ~Settled(r) /\ runs'[r].pc \in {"resolved", "rejected"}

IndexOf(n) == CHOOSE i \in 1..Len(subroutines) : subroutines[i] = n
Registered(n) == \E i \in 1..Len(subroutines) : subroutines[i] = n

IsCall(e, n) == e.op = "call" /\ e.name = n
IsEvent(e, event, n) == e.op = "emit" /\ e.event = event /\ e.name = n
\* the notification that ends a failed attempt of subroutine n
IsFailure(e, n) ==
  \/ IsEvent(e, "subroutineError", n)
  \/ IsEvent(e, "evaluatorError", n)
  \/ (IsEvent(e, "evaluation", n) /\ e.arg = FALSE)

CallsOf(r, n) == {p \in DOMAIN trace[r] : IsCall(trace[r][p], n)}
FailuresOf(r, n) == {p \in DOMAIN trace[r] : IsFailure(trace[r][p], n)}
ErrorEvents(r) == {p \in DOMAIN trace[r] : IsEvent(trace[r][p], "error", "")}

\* at position q of the trace of run r, subroutine n has passed: its action
\* resolved and its gate, if it has one, returned true
PassedAt(r, n, q) ==
  IF n \in evaluators
  THEN /\ IsEvent(trace[r][q], "evaluation", n) /\ trace[r][q].arg = TRUE
       /\ q > 1 /\ IsEvent(trace[r][q - 1], "subroutineComplete", n)
  ELSE IsEvent(trace[r][q], "subroutineComplete", n)

\* the returns of executeSubroutine(n) in run r
PassesOf(r, n) == {p \in DOMAIN trace[r] : trace[r][p].op = "pass" /\ trace[r][p].name = n}

\* the attempt of subroutine n that run r is waiting for, if any
AttemptPending(r, n) ==
  /\ runs[r].pc \in {"action", "evaluator"}
  /\ subroutines[runs[r].idx] = n

NoFailure(r) == \A n \in Names : FailuresOf(r, n) = {}

\* ------------------------------------------------------------------ C1
\* C1: an execute() rejected by the busy-check leaves the state of the
\* Routine (isRunning, currentSubroutine, error, results, lastRun) and the
\* run in flight exactly as they were.
BusyLeavesStateAlone ==
  [][busyCalls' # busyCalls =>
       /\ state' = state /\ heap' = heap /\ runs' = runs /\ trace' = trace
       /\ \E r \in Runs : InFlight(r)]_vars

BusyRejected == busyCalls > 0 /\ state.isRunning /\ \E r \in Runs : InFlight(r)

\* ------------------------------------------------------------------ C2
\* C2: two runs of one Routine never overlap: at most one execute() that
\* passed the busy-check has not yet published complete or error.
RunsNeverOverlap == Cardinality({r \in Runs : InFlight(r)}) <= 1

\* ------------------------------------------------------------------ C3
\* C3: between a run's start notification and its complete or error
\* notification, isRunning is true.
RunningWhileInFlight == \A r \in Runs : InFlight(r) => state.isRunning

\* ------------------------------------------------------------------ C4
\* C4: within one run the action of the j-th registered subroutine is never
\* invoked before the (j-1)-th subroutine has passed in that run.
AttemptsInRegistrationOrder ==
  \A r \in 1..started : \A p \in DOMAIN trace[r] :
    trace[r][p].op = "call" =>
      LET j == IndexOf(trace[r][p].name)
      IN j > 1 => \E q \in 1..(p - 1) : PassedAt(r, subroutines[j - 1], q)

SecondSubroutineAttempted ==
  \E r \in Runs : Len(subroutines) = 2 /\ CallsOf(r, subroutines[2]) # {}

\* ------------------------------------------------------------------ C5
\* C5: when subroutine k exhausts its retries, no action of a subroutine
\* registered after k is invoked in that run, state.error is set to the
\* exhaustion error, exactly one error notification is published and it
\* carries that error, and execute() rejects with that same error.
AbortedRun(r) ==
  LET e == runs[r].thrown
  IN /\ e.kind = "Exhausted" /\ e.run = r /\ Registered(e.name)
     /\ e.attempts = options.maxRetries
     /\ \A j \in (IndexOf(e.name) + 1)..Len(subroutines) : CallsOf(r, subroutines[j]) = {}
     /\ Cardinality(ErrorEvents(r)) = 1
     /\ \A p \in ErrorEvents(r) : trace[r][p].arg = e /\ p = Len(trace[r])

ExhaustionAbortsRun ==
  /\ [](\A r \in Runs : runs[r].pc = "rejected" => AbortedRun(r))
  /\ [][\A r \in Runs : Settles(r) /\ runs'[r].pc = "rejected" =>
          state'.error = runs'[r].thrown]_vars

FirstSubroutineExhausted ==
  \E r \in Runs : /\ runs[r].pc = "rejected" /\ Len(subroutines) = 2
                  /\ runs[r].thrown.name = subroutines[1]
                  /\ state.error = runs[r].thrown

\* ------------------------------------------------------------------ C6
\* C6: when execute() fails because subroutine k exhausted its retries,
\* state.results holds entries for subroutines 1..k-1 only.
ResultsStopBeforeFailure ==
  [][\A r \in Runs : Settles(r) /\ runs'[r].pc = "rejected" =>
       MapKeys(heap'[state'.results])
         = SubSeq(subroutines, 1, IndexOf(runs'[r].thrown.name) - 1)]_vars

\* ------------------------------------------------------------------ C7
\* C7: once the latest execute() has settled, state.results holds no entry
\* whose value was produced by an earlier run.
ResultsReplacedEachRun ==
  [][\A r \in Runs : Settles(r) /\ r = started =>
       \A i \in DOMAIN heap'[state'.results] : heap'[state'.results][i].v.run = r]_vars

\* ------------------------------------------------------------------ C8
\* C8: a run in which every action succeeds and every gate passes resolves
\* with exactly one entry per registered subroutine, the keys in
\* registration order, and invokes each action exactly once.
AllPassRunResolves ==
  \A r \in 1..started : NoFailure(r) =>
    /\ runs[r].pc # "rejected"
    /\ \A n \in Names : Cardinality(CallsOf(r, n)) <= 1
    /\ runs[r].pc = "resolved" =>
         /\ MapKeys(heap[r]) = subroutines
         /\ \A i \in 1..Len(subroutines) : Cardinality(CallsOf(r, subroutines[i])) = 1
         /\ IsEvent(trace[r][Len(trace[r])], "complete", "")
         /\ trace[r][Len(trace[r])].arg = r

TwoSubroutinesResolved ==
  \E r \in Runs : /\ runs[r].pc = "resolved" /\ NoFailure(r)
                  /\ Len(subroutines) = 2 /\ Len(heap[r]) = 2

\* ------------------------------------------------------------------ C9
\* C9: executeSubroutine invokes the action once per attempt, makes at most
\* maxRetries attempts, stops at the first attempt that passes and returns
\* that attempt's value; when it exhausts it has made maxRetries attempts.
AttemptsBounded ==
  \A r \in 1..started : \A i \in 1..Len(subroutines) :
    LET n == subroutines[i]
        called == CallsOf(r, n)
        failures == FailuresOf(r, n)
        passes == PassesOf(r, n)
        invoked == Cardinality(called)
        failed == Cardinality(failures)
    IN /\ invoked <= options.maxRetries
       /\ \A p \in called :
            trace[r][p].arg = Cardinality({q \in failures : q < p}) + 1
       /\ Cardinality(passes) <= 1
       /\ invoked = failed + Cardinality(passes)
                      + (IF AttemptPending(r, n) THEN 1 ELSE 0)
       /\ \A p \in passes :
            /\ \A q \in called \cup failures : q < p
            /\ PassedAt(r, n, p - 1)
            /\ trace[r][p].arg = Value(r, invoked)
            /\ MapHas(heap[r], n)
       /\ (runs[r].pc = "rejected" /\ runs[r].thrown.name = n) =>
            /\ invoked = options.maxRetries
            /\ failed = options.maxRetries
            /\ passes = {}

FailsTwiceThenPasses ==
  \E r \in Runs : \E n \in Names :
    /\ options.maxRetries = 3
    /\ Cardinality(FailuresOf(r, n)) = 2
    /\ PassesOf(r, n) # {}
    /\ Cardinality(CallsOf(r, n)) = 3

\* ------------------------------------------------------------------ C10
\* C10: the delay awaited after the a-th failed attempt, a = 1 .. maxRetries-1,
\* is retryDelay * a; no delay precedes the first attempt and none follows
\* the maxRetries-th failed attempt.
LinearBackoff ==
  \A r \in 1..started :
   LET failures == {q \in DOMAIN trace[r] : IsFailure(trace[r][q], trace[r][q].name)}
   IN \A p \in DOMAIN trace[r] :
    LET e == trace[r][p]
        a == Cardinality({q \in failures : q < p /\ trace[r][q].name = e.name})
    IN /\ e.op = "sleep" =>
            /\ a \in 1..(options.maxRetries - 1)
            /\ e.arg = options.retryDelay * a
            /\ IsFailure(trace[r][p - 1], e.name)
       /\ e.op = "call" =>
            IF e.arg = 1
            THEN p > 1 /\ trace[r][p - 1].op # "sleep"
            ELSE trace[r][p - 1].op = "sleep" /\ trace[r][p - 1].name = e.name
       /\ (e.op = "emit" /\ IsFailure(e, e.name)) =>
            IF a + 1 < options.maxRetries
            THEN /\ p < Len(trace[r])
                 /\ trace[r][p + 1].op = "sleep"
                 /\ trace[r][p + 1].arg = options.retryDelay * (a + 1)
            ELSE p < Len(trace[r]) /\ IsEvent(trace[r][p + 1], "error", "")

SecondDelayAwaited ==
  \E r \in Runs : \E p \in DOMAIN trace[r] :
    /\ trace[r][p].op = "sleep"
    /\ trace[r][p].arg = 2 * options.retryDelay
    /\ runs[r].pc = "delay"
    /\ runs[r].attempts = 2

\* ------------------------------------------------------------------ C11
\* C11: a rejection of execute() that is not the busy error carries
\* 'Subroutine <name> failed after <attempts> attempts: <message>': name is
\* the first subroutine that did not pass, attempts is maxRetries, message
\* is that of the last failed attempt.
\* the message of the error that ends a failed attempt
MessageOf(e) ==
  IF e.event = "evaluation" THEN "EvaluationFailed" ELSE e.arg.kind

LastOf(S) == CHOOSE p \in S : \A q \in S : q <= p

RejectionNamesLastError ==
  \A r \in 1..started : runs[r].pc = "rejected" =>
    LET e == runs[r].thrown
        failures == FailuresOf(r, e.name)
    IN /\ e.kind = "Exhausted"
       /\ Registered(e.name)
       /\ \A j \in 1..(IndexOf(e.name) - 1) : PassesOf(r, subroutines[j]) # {}
       /\ PassesOf(r, e.name) = {}
       /\ e.attempts = options.maxRetries
       /\ Cardinality(failures) = options.maxRetries
       /\ e.cause = MessageOf(trace[r][LastOf(failures)])
       /\ e.cause \in {"ActionError", "Timeout", "EvaluationFailed", "EvaluatorThrew"}

RejectedAfterMixedFailures ==
  \E r \in Runs :
    /\ runs[r].pc = "rejected"
    /\ runs[r].thrown.attempts = 3
    /\ \E p \in FailuresOf(r, runs[r].thrown.name) :
         MessageOf(trace[r][p]) # runs[r].thrown.cause

\* ------------------------------------------------------------------ C12
\* C12: an attempt whose action succeeded and whose evaluator returned false
\* is a failed attempt of the same maxRetries budget: the action is invoked
\* again on the next attempt, and when the budget is exhausted the last
\* error is 'Evaluation failed for <name>'.
GateRejectionRetried ==
  \A r \in 1..started : \A p \in DOMAIN trace[r] :
    LET e == trace[r][p]
    IN (IsEvent(e, "evaluation", e.name) /\ e.arg = FALSE) =>
         LET a == Cardinality({q \in FailuresOf(r, e.name) : q <= p})
         IN /\ p > 1 /\ IsEvent(trace[r][p - 1], "subroutineComplete", e.name)
            /\ a <= options.maxRetries
            /\ p < Len(trace[r])
            /\ IF a < options.maxRetries
               THEN /\ trace[r][p + 1].op = "sleep"
                    /\ IF p + 2 <= Len(trace[r])
                       THEN IsCall(trace[r][p + 2], e.name) /\ trace[r][p + 2].arg = a + 1
                       ELSE runs[r].pc = "delay"
               ELSE /\ IsEvent(trace[r][p + 1], "error", "")
                    /\ trace[r][p + 1].arg.kind = "Exhausted"
                    /\ trace[r][p + 1].arg.name = e.name
                    /\ trace[r][p + 1].arg.cause = "EvaluationFailed"
                    /\ runs[r].pc = "rejected"

ActionInvokedAgainAfterGateRejection ==
  \E r \in Runs : \E p \in DOMAIN trace[r] :
    /\ IsEvent(trace[r][p], "evaluation", trace[r][p].name)
    /\ trace[r][p].arg = FALSE
    /\ p + 2 <= Len(trace[r])
    /\ IsCall(trace[r][p + 2], trace[r][p].name)

\* ------------------------------------------------------------------ C13
\* the attempt of run r that the trace entry at p belongs to: from the call
\* of the action to the entry before the next call of the same subroutine
AttemptSpan(r, p) ==
  LET n == trace[r][p].name
      first == LastOf({q \in 1..p : IsCall(trace[r][q], n)})
      later == {q \in (p + 1)..Len(trace[r]) : IsCall(trace[r][q], n)}
  IN first..(IF later = {} THEN Len(trace[r])
             ELSE (CHOOSE q \in later : \A q2 \in later : q <= q2) - 1)

EvaluatorErrorsOf(r) ==
  {p \in DOMAIN trace[r] : IsEvent(trace[r][p], "evaluatorError", trace[r][p].name)}

\* C13 (as claimed): an attempt whose evaluator throws publishes both an
\* evaluatorError and a subroutineError notification for the subroutine.
EvaluatorThrowPublishesBoth ==
  \A r \in 1..started : \A p \in EvaluatorErrorsOf(r) :
    \E q \in AttemptSpan(r, p) : IsEvent(trace[r][q], "subroutineError", trace[r][p].name)

\* C13: an attempt whose evaluator throws counts as a failed attempt of the
\* retry budget and publishes one evaluatorError {name, error}, after the
\* subroutineComplete of the action, and no subroutineError.
EvaluatorThrowPublishesEvaluatorError ==
  \A r \in 1..started : \A p \in EvaluatorErrorsOf(r) :
    LET e == trace[r][p]
        a == Cardinality({q \in FailuresOf(r, e.name) : q <= p})
        span == AttemptSpan(r, p)
    IN /\ e.arg.kind = "EvaluatorThrew"
       /\ p > 1 /\ IsEvent(trace[r][p - 1], "subroutineComplete", e.name)
       /\ \A q \in span : ~IsEvent(trace[r][q], "subroutineError", e.name)
       /\ {q \in span : IsFailure(trace[r][q], e.name)} = {p}
       /\ a <= options.maxRetries
       /\ p < Len(trace[r])
       /\ IF a < options.maxRetries
          THEN /\ trace[r][p + 1].op = "sleep"
               /\ p + 2 <= Len(trace[r]) =>
                    IsCall(trace[r][p + 2], e.name) /\ trace[r][p + 2].arg = a + 1
          ELSE /\ IsEvent(trace[r][p + 1], "error", "")
               /\ trace[r][p + 1].arg.cause = "EvaluatorThrew"

RetriedAfterEvaluatorThrow ==
  \E r \in Runs : \E p \in EvaluatorErrorsOf(r) :
    /\ p + 2 <= Len(trace[r])
    /\ IsCall(trace[r][p + 2], trace[r][p].name)

\* ------------------------------------------------------------------ C14
\* the attempts of run r that are over and failed: the calls followed by
\* another call of the same subroutine, or by the rejection of the run
FailedAttempts(r) ==
  {c \in DOMAIN trace[r] :
     /\ trace[r][c].op = "call"
     /\ \/ \E d \in (c + 1)..Len(trace[r]) : IsCall(trace[r][d], trace[r][c].name)
        \/ runs[r].pc = "rejected" /\ runs[r].thrown.name = trace[r][c].name}

\* C14 (as claimed): every failed attempt publishes a subroutineError or an
\* evaluatorError notification for its subroutine before the next attempt.
EveryFailurePublishesError ==
  \A r \in 1..started : \A c \in FailedAttempts(r) :
    \E q \in AttemptSpan(r, c) :
      \/ IsEvent(trace[r][q], "subroutineError", trace[r][c].name)
      \/ IsEvent(trace[r][q], "evaluatorError", trace[r][c].name)

\* C14: every failed attempt publishes exactly one failure notification for
\* its subroutine before the next attempt starts: subroutineError when the
\* action failed or timed out, evaluatorError when the evaluator threw,
\* evaluation {name, false} when the evaluator returned false.
EveryFailurePublishesItsNotification ==
  \A r \in 1..started : \A c \in FailedAttempts(r) :
    LET n == trace[r][c].name
        marks == {q \in AttemptSpan(r, c) : IsFailure(trace[r][q], n)}
    IN /\ Cardinality(marks) = 1
       /\ \A q \in marks :
            LET e == trace[r][q]
            IN \/ /\ e.event = "subroutineError"
                  /\ q = c + 1
                  /\ e.arg.kind \in {"ActionError", "Timeout"}
               \/ /\ e.event = "evaluatorError"
                  /\ q = c + 2
                  /\ e.arg.kind = "EvaluatorThrew"
               \/ /\ e.event = "evaluation" /\ e.arg = FALSE
                  /\ q = c + 2
                  /\ IsEvent(trace[r][c + 1], "subroutineComplete", n)

GateRejectionPublishesNoError ==
  \E r \in Runs : \E c \in FailedAttempts(r) :
    /\ \E q \in AttemptSpan(r, c) :
         IsEvent(trace[r][q], "evaluation", trace[r][c].name) /\ trace[r][q].arg = FALSE
    /\ \E d \in (c + 1)..Len(trace[r]) : IsCall(trace[r][d], trace[r][c].name)

\* ------------------------------------------------------------------ C15
\* C15: once the timer wins the race the attempt fails with a timeout error,
\* and when the abandoned action settles later, during a later attempt or a
\* later run, nothing is written into any results Map and no notification
\* is published.
AbandonedResultDiscarded ==
  [][/\ \A a \in abandoned' \ abandoned :
          LET p == Len(trace[a.run]) + 1
          IN /\ runs[a.run].pc = "action"
             /\ IsEvent(trace'[a.run][p], "subroutineError", a.name)
             /\ trace'[a.run][p].arg.kind = "Timeout"
             /\ runs'[a.run].lastError.kind = "Timeout"
             /\ runs'[a.run].attempts = a.att
             /\ ~MapHas(heap'[a.run], a.name)
     /\ abandoned' # abandoned /\ abandoned' \subseteq abandoned =>
          UNCHANGED <<state, heap, trace, runs, invocations>>]_vars

AbandonedSettledInLaterRun ==
  \E a \in Attempts :
    /\ a \notin abandoned
    /\ \E p \in FailuresOf(a.run, a.name) :
         /\ trace[a.run][p].event = "subroutineError"
         /\ trace[a.run][p].arg.kind = "Timeout"
         /\ Cardinality({q \in FailuresOf(a.run, a.name) : q <= p}) = a.att
    /\ Settled(a.run)
    /\ \E r \in Runs : r > a.run /\ InFlight(r)

\* ------------------------------------------------------------------ C16
\* C16: whichever way an execute() that passed the busy-check ends, once
\* the call has settled isRunning is false and currentSubroutine is none.
SettledRunClearsRunning ==
  [][\A r \in Runs : Settles(r) =>
       /\ state'.isRunning = FALSE
       /\ state'.currentSubroutine = ""]_vars

RunRejectedAndCleared ==
  \E r \in Runs :
    /\ runs[r].pc = "rejected"
    /\ ~state.isRunning
    /\ state.currentSubroutine = ""
    /\ state.lastRun = r

\* ------------------------------------------------------------------ C17
\* the complete and error notifications of run r
TerminalEvents(r) ==
  {p \in DOMAIN trace[r] :
     IsEvent(trace[r][p], "complete", "") \/ IsEvent(trace[r][p], "error", "")}

RunLifecycle(r) ==
  LET last == TerminalEvents(r)
      starts == {p \in DOMAIN trace[r] : IsEvent(trace[r][p], "start", "")}
  IN /\ starts = {1}
     /\ trace[r][1].arg = r
     /\ Cardinality(last) = IF Settled(r) THEN 1 ELSE 0
     /\ \A p \in last :
          /\ p = Len(trace[r])
          /\ IF trace[r][p].event = "complete"
             THEN /\ runs[r].pc = "resolved"
                  /\ \A i \in 1..Len(subroutines) : PassesOf(r, subroutines[i]) # {}
                  /\ trace[r][p].arg = r
                  /\ MapKeys(heap[r]) = subroutines
             ELSE /\ runs[r].pc = "rejected"
                  /\ \E i \in 1..Len(subroutines) : PassesOf(r, subroutines[i]) = {}

\* C17: an execute() that passes the busy-check sets lastRun and clears
\* error; start is the first notification of the run; exactly one of
\* complete and error is published and it is the last notification of the
\* run; complete is published if and only if every subroutine passed, and it
\* carries the results Map that execute() returns.
LifecycleNotifications ==
  /\ [](\A r \in 1..started : RunLifecycle(r))
  /\ [][started' # started =>
          /\ state'.lastRun = started'
          /\ state'.error = NullError]_vars

RunCompletedAfterFailedRun ==
  \E r \in Runs :
    /\ r > 1 /\ runs[r - 1].pc = "rejected"
    /\ runs[r].pc = "resolved"
    /\ Len(subroutines) = 2
    /\ state.error = NullError /\ state.lastRun = r

\* ------------------------------------------------------------------ C18
\* C18 (as claimed): an execute() rejected by the busy-check publishes its
\* busy error as a notification of the Routine.
BusyErrorPublished ==
  [][busyCalls' # busyCalls => \E r \in Runs : trace'[r] # trace[r]]_vars

\* C18: an execute() rejected by the busy-check surfaces its busy error to
\* the caller only: no notification is published for it.
BusyErrorNotPublished ==
  [][busyCalls' # busyCalls =>
       /\ busyCalls' = busyCalls + 1
       /\ \A r \in Runs : trace'[r] = trace[r]]_vars

BusyRejectedSilently ==
  /\ busyCalls > 0
  /\ \A r \in Runs : ErrorEvents(r) = {}
  /\ \E r \in Runs : Settled(r)

\* ------------------------------------------------------------------ C19
ActionCalls(r) == {i \in DOMAIN invocations[r] : invocations[r][i].fn = "action"}
EvaluatorCalls(r) == {i \in DOMAIN invocations[r] : invocations[r][i].fn = "evaluator"}

\* the value subroutine n passed with in run r
PassedValue(r, n) == trace[r][CHOOSE p \in PassesOf(r, n) : TRUE].arg

\* C19: every attempt of the k-th subroutine's action in a run is invoked
\* with the initial inputs of the run and the results Map of the run, which
\* then holds exactly the passing results of subroutines 1..k-1 of that run.
ActionSeesResultsSoFar ==
  \A r \in 1..started :
    /\ Cardinality(ActionCalls(r)) =
         Cardinality({p \in DOMAIN trace[r] : trace[r][p].op = "call"})
    /\ \A i \in ActionCalls(r) :
         LET v == invocations[r][i]
             k == IndexOf(v.name)
             m == v.args[2].map
         IN /\ IsCall(trace[r][v.pos], v.name)
            /\ Len(v.args) = 2
            /\ v.args[1] = InputsArg(r)
            /\ v.args[2].kind = "results" /\ v.args[2].run = r
            /\ MapKeys(m) = SubSeq(subroutines, 1, k - 1)
            /\ \A j \in 1..(k - 1) :
                 /\ PassesOf(r, subroutines[j]) # {}
                 /\ m[j].v = PassedValue(r, subroutines[j])

SecondActionRetriedWithFirstResult ==
  \E r \in Runs : \E i \in ActionCalls(r) :
    LET v == invocations[r][i]
    IN /\ Len(subroutines) = 2 /\ v.name = subroutines[2]
       /\ trace[r][v.pos].arg = 2
       /\ MapKeys(v.args[2].map) = <<subroutines[1]>>

ResetStep == calls' # calls /\ started' = started /\ busyCalls' = busyCalls

\* C21: immediately after reset() returns the results Map is empty,
\* isRunning is false, error is none and currentSubroutine is none, whatever
\* came before, a run in flight included.
ResetClearsState ==
  [][ResetStep =>
       /\ heap'[state'.results] = << >>
       /\ state'.isRunning = FALSE
       /\ state'.error = NullError
       /\ state'.currentSubroutine = ""]_vars

ResetDuringRun ==
  /\ \E r \in Runs : InFlight(r) /\ MapHas(heap[r], subroutines[1])
  /\ state = FreshState
  /\ heap[0] = << >>

\* ------------------------------------------------------------------ C22
\* the subroutines run r has attempted, in the order of their first attempt
RECURSIVE Attempted(_, _)
Attempted(r, p) ==
  IF p = 0 THEN << >>
  ELSE LET before == Attempted(r, p - 1)
           e == trace[r][p]
       IN IF e.op = "call" /\ (\A i \in DOMAIN before : before[i] # e.name)
          THEN Append(before, e.name) ELSE before

\* C22: reset() leaves the registered subroutines, their order, the
\* evaluators and the options as they are: a run after reset() attempts the
\* same subroutines in the same order as before.
ResetKeepsRegistrations ==
  /\ [][ResetStep => UNCHANGED <<subroutines, evaluators, options>>]_vars
  /\ [](\A r \in 1..started :
          runs[r].pc = "resolved" => Attempted(r, Len(trace[r])) = subroutines)

RunAfterResetResolved ==
  \E r \in Runs :
    /\ r > 1 /\ InFlight(r - 1)
    /\ runs[r].pc = "resolved"
    /\ Len(subroutines) = 2

\* ------------------------------------------------------------------ C23
EveryRunSettled == started > 0 /\ \A r \in 1..started : Settled(r)

\* C23 (as claimed): reset() after a completed or failed run leaves
\* state.lastRun unchanged.
ResetKeepsLastRunTime ==
  [][ResetStep /\ EveryRunSettled => state'.lastRun = state.lastRun]_vars

\* C23: reset() after a completed or failed run sets state.lastRun back to
\* none, as it was after construction.
ResetClearsLastRunTime ==
  [][ResetStep /\ EveryRunSettled => state'.lastRun = 0]_vars

ResetAfterSettledRun ==
  /\ EveryRunSettled
  /\ state.lastRun = 0
  /\ ~state.isRunning

\* ------------------------------------------------------------------ C24
\* C24: after a name has been added again, executing it invokes the action
\* of the last addSubroutine only and gates it with the evaluator given in
\* that last registration (or set after it), or with none: never with the
\* evaluator of an earlier registration.
LastWriteWins ==
  \A r \in 1..started : \A i \in DOMAIN invocations[r] :
    LET v == invocations[r][i]
    IN registry[v.name].action >= 2 => v.version = registry[v.name].action

\* ------------------------------------------------------------------ C25
\* C25: addSubroutine with an action or an evaluator that is not a function
\* throws and registers nothing: subroutines and evaluators are as before.
RejectedRegistersNothing ==
  [][configErrors' # configErrors =>
       UNCHANGED <<subroutines, evaluators, registry>>]_vars

\* ------------------------------------------------------------------ C26
\* C26: addEvaluator for a name without a registered subroutine stores no
\* evaluator: every stored evaluator belongs to a registered subroutine.
EvaluatorOnlyForRegistered ==
  \A n \in evaluators : Registered(n)

\* ------------------------------------------------------------------ C27
WorkerInFlight == {w \in WorkerRuns : wruns[w].pc = "awaiting"}

\* C27: run() called while an earlier run() of the Worker is unsettled is
\* rejected ('Worker is already running') without changing the state of the
\* Worker or starting the Routine; at most one run() is in flight, and when
\* a run() settles isRunning of the Worker is false.
WorkerRunsOneAtATime ==
  /\ [](/\ Cardinality(WorkerInFlight) <= 1
        /\ WorkerInFlight # {} => worker.isRunning)
  /\ [][/\ wbusy' # wbusy =>
             /\ WorkerInFlight # {}
             /\ UNCHANGED <<worker, wruns, wtrace, routineVars>>
        /\ \A w \in WorkerRuns :
             wruns[w].pc = "awaiting" /\ wruns'[w].pc # "awaiting" =>
               worker'.isRunning = FALSE]_vars

WorkerBusyRejected ==
  /\ wbusy > 0
  /\ \E w \in WorkerRuns : wruns[w].pc = "resolved"
  /\ ~worker.isRunning

\* ------------------------------------------- vocabulary of the queue log
IsStart(e) == e.ev = "start"
\* the routines whose execute() the call that wrote log started, in order
StartedIn(log) ==
  LET S == SelectSeq(log, IsStart) IN [p \in DOMAIN S |-> S[p].routine]
\* the call that wrote log ended by an exception
Threw(log) == log # << >> /\ log[Len(log)].ev = "throw"
\* a handler of kind ev of routine j was called before position p of log
FiredBefore(log, ev, j, p) ==
  \E q \in 1..(p - 1) : log[q].ev = ev /\ log[q].routine = j
StartedBefore(log, j, p) == FiredBefore(log, "start", j, p)
\* promise.execute() is called in mode m
ExecuteStep(m) == qexecs' # qexecs /\ queue = m

\* ------------------------------------------------------------------ C28
\* C28: in an execute() of the queue in waterfall mode the routines start in
\* list order, and a routine is started only after every routine before it in
\* the list has started, has had its success handlers called and has not
\* failed.
WaterfallInListOrder ==
  [][ExecuteStep("waterfall") =>
       \A p \in DOMAIN qlog' :
         qlog'[p].ev = "start" =>
           \A k \in DOMAIN routines :
             k < qlog'[p].routine =>
               /\ StartedBefore(qlog', routines[k], p)
               /\ FiredBefore(qlog', "success", routines[k], p)
               /\ ~FiredBefore(qlog', "failure", routines[k], p)]_vars

\* ------------------------------------------------------------------ C29
\* every routine of the queue succeeds and none of its handlers throws
AllSucceed ==
  \A k \in DOMAIN routines :
    verdict[routines[k]] = "true" /\ routines[k] \notin Throwing

\* C29: when every routine of the queue succeeds, one execute() in waterfall
\* mode executes every routine of the list exactly once, in list order, and
\* calls the success handler of each.
WaterfallRunsEveryRoutine ==
  [][ExecuteStep("waterfall") /\ AllSucceed =>
       /\ StartedIn(qlog') = routines
       /\ \A k \in DOMAIN routines :
            FiredBefore(qlog', "success", routines[k], Len(qlog') + 1)]_vars

\* ------------------------------------------------------------------ C30
\* every routine of the list was started by the call that wrote log
EveryRoutineStarted(log) ==
  \A k \in DOMAIN routines : StartedBefore(log, routines[k], Len(log) + 1)

QueueFired(log, ev) == \E p \in DOMAIN log : log[p].ev = ev
\* a routine of the list failed in the call that wrote log
SomeRoutineFailed(log) ==
  \E k \in DOMAIN routines : FiredBefore(log, "failure", routines[k], Len(log) + 1)

\* C31: once the caller has given the queue a failure handler with catch(), an
\* execute() in which a routine fails calls it, and once the caller has given
\* it a success handler with then(), an execute() in parallel mode in which
\* every routine succeeds calls that one; the success handler is not called
\* when a routine failed.
QueueNotifies ==
  [][qexecs' # qexecs /\ queue \in {"parallel", "waterfall"} =>
       /\ "catch" \in typeErrors /\ SomeRoutineFailed(qlog')
            => QueueFired(qlog', "queueFailure")
       /\ "then" \in typeErrors /\ queue = "parallel" /\ AllSucceed /\ routines # << >>
            => QueueFired(qlog', "queueSuccess")
       /\ SomeRoutineFailed(qlog') => ~QueueFired(qlog', "queueSuccess")]_vars

\* ------------------------------------------------------------------ C32
\* C32: an execute() of the queue, in either mode, leaves the handler lists
\* and the sub-routine list of every routine as they were.
ExecuteKeepsRoutines ==
  [][qexecs' # qexecs =>
       UNCHANGED <<successHandlers, failureHandlers, subRoutines>>]_vars

\* ------------------------------------------------------------------ C33
\* C33: addQueue never leaves the queue in a mode other than parallel and
\* waterfall: a call with another value throws and the mode stays as it was.
AddQueueRejectsInvalid ==
  [][queue' # queue => queue' \in {"parallel", "waterfall"}]_vars

\* ------------------------------------------------------------------ C34
\* the handlers of kind ev of routine j that the call that wrote log called,
\* in the order of the calls
CalledIn(log, ev, j) ==
  LET Is(e) == e.ev = ev /\ e.routine = j
      S == SelectSeq(log, Is)
  IN [p \in DOMAIN S |-> S[p].id]
\* the handlers of a list, in registration order
InOrder(handlers) == [k \in DOMAIN handlers |-> k]
\* routine.execute() is called on Root
LegacyStep == qexecs' # qexecs /\ qlog'[1].ev = "direct"

\* C34: one execute() of a Routine calls every success handler once, in
\* registration order, and no failure handler when the evaluator returns true,
\* and every failure handler once, in registration order, and no success
\* handler when it returns false or throws, whatever the handlers do.
HandlersFollowEvaluator ==
  [][LegacyStep =>
       IF verdict[Root] = "true"
       THEN /\ CalledIn(qlog', "success", Root) = InOrder(successHandlers[Root])
            /\ CalledIn(qlog', "failure", Root) = << >>
       ELSE /\ CalledIn(qlog', "failure", Root) = InOrder(failureHandlers[Root])
            /\ CalledIn(qlog', "success", Root) = << >>]_vars

\* ------------------------------------------------------------------ C35
\* in log every sub-routine of Root starts after the last handler of Root
AfterOwnHandlers(log) ==
  \A p, q \in DOMAIN log :
    /\ log[p].ev = "start" /\ log[p].routine # Root
    /\ log[q].ev \in {"success", "failure"} /\ log[q].routine = Root
    => q < p
IsPrefix(a, b) == Len(a) <= Len(b) /\ \A k \in DOMAIN a : a[k] = b[k]

AttemptsOf(r) == {p \in DOMAIN trace[r] : trace[r][p].op = "call"}
\* what holds of every run at any time: at most N * maxRetries attempts, and
\* a settled run has published complete or error
RunBounded ==
  \A r \in 1..started :
    /\ Cardinality(AttemptsOf(r)) <= Len(subroutines) * options.maxRetries
    /\ Settled(r) => \E p \in DOMAIN trace[r] :
                       /\ trace[r][p].op = "emit"
                       /\ trace[r][p].event \in {"complete", "error"}
\* a run that settles leaves isRunning false
SettlingClearsRunning ==
  \A r \in Runs : Settles(r) => state'.isRunning = FALSE

\* C36 as stated: when timers fire, every execute() that passed the busy-check
\* settles in the end, whatever actions and evaluators do, having published
\* complete or error and set isRunning to false, after at most N * maxRetries
\* attempts.
EveryRunSettles ==
  /\ \A r \in FairRuns : (runs[r].pc # "new") ~> Settled(r)
  /\ []RunBounded
  /\ [][SettlingClearsRunning]_vars

\* C36, amended: when timers fire, every execute() that passed the busy-check
\* and whose evaluator calls all settle does settle in the end, even when its
\* actions never settle, having published complete or error and set isRunning
\* to false, after at most N * maxRetries attempts.
EveryRunSettlesIfEvaluatorsDo ==
  /\ \A r \in FairRuns :
       []<>(runs[r].pc # "evaluator") => ((runs[r].pc # "new") ~> Settled(r))
  /\ []RunBounded
  /\ [][SettlingClearsRunning]_vars

\* a run was rejected after every one of its attempts had timed out
RejectedAfterTimeouts ==
  \E r \in Runs :
    /\ runs[r].pc = "rejected"
    /\ Cardinality(AttemptsOf(r)) = options.maxRetries
    /\ \A p \in DOMAIN trace[r] :
         trace[r][p].op = "emit" /\ trace[r][p].event = "subroutineError"
           => trace[r][p].arg.kind = "Timeout"
    /\ ~state.isRunning

\* ------------------------------------------------------------------ C37
\* C37: the results mapping a completed execute() returned is never modified
\* afterwards.
ReturnedResultsFrozen ==
  [][\A r \in Runs : runs[r].pc = "resolved" => heap'[r] = heap[r]]_vars

\* ------------------------------------------------------------------ C38
\* the runs that await the race of an action
Awaited == {r \in Runs : runs[r].pc = "action"}

\* C38 as stated: at most one action invocation of the Routine is unsettled at
\* any moment, the abandoned ones included.
OneActionUnsettled == Cardinality(abandoned) + Cardinality(Awaited) <= 1

\* C38, amended: an execute() awaits at most one action invocation at a time:
\* it starts an action only when the race of each of its earlier invocations
\* has settled, by the action or by the timer.  The invocations that are still
\* running beside the awaited ones are those a timeout has abandoned, and a
\* retry, a later subroutine or a later execute() does start an action while
\* they run.
UnsettledActionsAccounted ==
  \A r \in 1..started :
    LET raced == {p \in DOMAIN trace[r] :
                    /\ trace[r][p].op = "emit"
                    /\ trace[r][p].event \in {"subroutineComplete", "subroutineError"}}
    IN /\ Cardinality(AttemptsOf(r))
            = Cardinality(raced) + (IF r \in Awaited THEN 1 ELSE 0)
       /\ \A a \in abandoned :
            a.run = r =>
              \E p \in raced : /\ IsEvent(trace[r][p], "subroutineError", a.name)
                               /\ trace[r][p].arg.kind = "Timeout"

\* a retry awaits its action while the action of the attempt that timed out is
\* still running
RetryBesideAbandoned ==
  \E r \in Runs : r \in Awaited /\ \E a \in abandoned : a.run = r /\ runs[r].attempts = a.att

\* ------------------------------------------------------------------ C39
\* C39: whatever execute(), executeSubroutine() and reset() calls are made,
\* currentSubroutine names a subroutine only while isRunning is true.
CurrentOnlyWhileRunning == state.currentSubroutine # "" => state.isRunning

====
